---- MODULE Spec2Model ----
(***************************************************************************)
(* Model of src/app.py: a Streamlit script that gates on a password,      *)
(* fetches a holdings table, renames its columns by position, cleans the  *)
(* European-formatted weight column, consolidates the rows per security,  *)
(* ranks the positions and derives KPI, pie and bar views.                *)
(*                                                                         *)
(* Text is a sequence of one-character strings, so that the replace chain *)
(* of lines 81-89 and the numeric parse of line 90 are computed and not   *)
(* assumed.  A number is an exact decimal [m, e] standing for m / 10^e.   *)
(***************************************************************************)
EXTENDS Integers, Sequences, FiniteSets, TLC

(***************************************************************************)
(* Bounds of the model.                                                    *)
(***************************************************************************)
MaxLen == 3
MaxRows == 2
MaxExtraCols == 1
MaxRank == 12
MaxRuns == 4

(***************************************************************************)
(* Exact decimals.                                                         *)
(***************************************************************************)
RECURSIVE Pow10(_)
Pow10(n) == IF n = 0 THEN 1 ELSE 10 * Pow10(n - 1)

RECURSIVE DecNorm(_)
DecNorm(d) ==
    IF d.e > 0 /\ d.m % 10 = 0
    THEN DecNorm([m |-> d.m \div 10, e |-> d.e - 1])
    ELSE d

Max2(a, b) == IF a >= b THEN a ELSE b

DecAdd(a, b) ==
    LET E == Max2(a.e, b.e)
    IN  DecNorm([m |-> a.m * Pow10(E - a.e) + b.m * Pow10(E - b.e), e |-> E])

DecLt(a, b) ==
    LET E == Max2(a.e, b.e)
    IN  a.m * Pow10(E - a.e) < b.m * Pow10(E - b.e)

DecGe(a, b) == ~DecLt(a, b)

Zero == [m |-> 0, e |-> 0]

RECURSIVE DecSum(_)
DecSum(ws) == IF ws = <<>> THEN Zero ELSE DecAdd(Head(ws), DecSum(Tail(ws)))

(***************************************************************************)
(* Text.                                                                   *)
(***************************************************************************)
Digits == <<"0", "1", "2", "3", "4", "5", "6", "7", "8", "9">>

DigitSet == {Digits[i] : i \in 1..10}

DigitVal(c) == (CHOOSE i \in 1..10 : Digits[i] = c) - 1

IsPrefix(p, s) == Len(p) <= Len(s) /\ SubSeq(s, 1, Len(p)) = p

\* str.replace(old, new, regex=False): leftmost, non-overlapping occurrences.
RECURSIVE StrReplace(_, _, _)
StrReplace(s, old, new) ==
    IF s = <<>> THEN <<>>
    ELSE IF IsPrefix(old, s)
         THEN new \o StrReplace(SubSeq(s, Len(old) + 1, Len(s)), old, new)
         ELSE <<Head(s)>> \o StrReplace(Tail(s), old, new)

RECURSIVE NatStr(_)
NatStr(n) == IF n < 10 THEN <<Digits[n + 1]>> ELSE NatStr(n \div 10) \o <<Digits[(n % 10) + 1]>>

RECURSIVE PadFrac(_, _)
PadFrac(s, w) == IF Len(s) >= w THEN s ELSE PadFrac(<<"0">> \o s, w)

\* str() of a Python float in positional notation: 3.5 -> "3.5", 40.0 -> "40.0".
FloatStr(d) ==
    LET n == DecNorm(d)
    IN  IF n.e = 0
        THEN NatStr(n.m) \o <<".", "0">>
        ELSE NatStr(n.m \div Pow10(n.e)) \o <<".">> \o PadFrac(NatStr(n.m % Pow10(n.e)), n.e)

\* Code-point order of the characters the model uses (ASCII order, then the euro sign).
Chars == <<" ", "%", "(", ")", ",", ".", "0", "1", "2", "3", "4", "5", "6", "7", "8", "9",
           "<", "A", "B", "C", "D", "E", "F", "I", "N", "O", "P", "R", "S", "T", "U", "W",
           "a", "c", "d", "e", "g", "h", "i", "k", "l", "n", "o", "r", "s", "t", "u", "x", "€">>

CodePoint(c) == CHOOSE i \in 1..Len(Chars) : Chars[i] = c

RECURSIVE StrLt(_, _)
StrLt(a, b) ==
    IF b = <<>> THEN FALSE
    ELSE IF a = <<>> THEN TRUE
    ELSE IF Head(a) = Head(b) THEN StrLt(Tail(a), Tail(b))
    ELSE CodePoint(Head(a)) < CodePoint(Head(b))

RECURSIVE LStrip(_)
LStrip(s) == IF s # <<>> /\ Head(s) = " " THEN LStrip(Tail(s)) ELSE s

RECURSIVE RStrip(_)
RStrip(s) == IF s # <<>> /\ s[Len(s)] = " " THEN RStrip(SubSeq(s, 1, Len(s) - 1)) ELSE s

Strip(s) == RStrip(LStrip(s))

(***************************************************************************)
(* Cells.  A cell is missing (NaN), text, a float or an integer.           *)
(***************************************************************************)
NaN == [t |-> "nan", s |-> <<>>, d |-> Zero]

StrCell(s) == [t |-> "str", s |-> s, d |-> Zero]

FloatCell(d) == [t |-> "float", s |-> <<>>, d |-> DecNorm(d)]

IntCell(n) == [t |-> "int", s |-> <<>>, d |-> [m |-> n, e |-> 0]]

IsNa(c) == c.t = "nan"

\* Series.astype(str), element by element (line 83).
AsStr(c) ==
    CASE c.t = "nan" -> <<"n", "a", "n">>
      [] c.t = "str" -> c.s
      [] c.t = "float" -> FloatStr(c.d)
      [] c.t = "int" -> NatStr(c.d.m)

\* The replace chain of lines 84-88.
CleanStr(s) ==
    LET s1 == StrReplace(s, <<"%">>, <<>>)
        s2 == StrReplace(s1, <<"€">>, <<>>)
        s3 == StrReplace(s2, <<"n", "a", "n">>, <<"0">>)
        s4 == StrReplace(s3, <<".">>, <<>>)
    IN  StrReplace(s4, <<",">>, <<".">>)

CountOf(s, c) == Cardinality({i \in 1..Len(s) : s[i] = c})

RECURSIVE DigitsVal(_)
DigitsVal(s) == IF s = <<>> THEN 0 ELSE DigitsVal(SubSeq(s, 1, Len(s) - 1)) * 10 + DigitVal(s[Len(s)])

\* Number of characters after the decimal point.
FracLen(s) == IF CountOf(s, ".") = 0 THEN 0 ELSE Len(s) - (CHOOSE i \in 1..Len(s) : s[i] = ".")

\* pd.to_numeric(errors='coerce') on one text: digits with at most one decimal
\* point and at least one digit parse; anything else is coerced to NaN (so is
\* the text "nan" itself).  Signs, exponents and blanks are not modelled: no
\* weight cell of the model holds them.
ToNumeric(s) ==
    IF /\ \A i \in 1..Len(s) : s[i] \in DigitSet \cup {"."}
       /\ CountOf(s, ".") <= 1
       /\ Len(s) - CountOf(s, ".") >= 1
    THEN FloatCell([m |-> DigitsVal(StrReplace(s, <<".">>, <<>>)), e |-> FracLen(s)])
    ELSE NaN

\* The cleaning without its fillna(0).
FillNa0_Skipped(c) == c

\* Series.fillna(0) on one cell (line 90).
FillNa0(c) == IF IsNa(c) THEN FloatCell(Zero) ELSE c

\* Lines 81-90 on one cell of 'Peso Real'.
PesoReal(c) == FillNa0(ToNumeric(CleanStr(AsStr(c))))

(***************************************************************************)
(* Column names.                                                           *)
(***************************************************************************)
N_Fund_ISIN == <<"F", "u", "n", "d", " ", "I", "S", "I", "N">>

N_Fondo == <<"F", "o", "n", "d", "o">>

N_Accion == <<"A", "c", "c", "i", "o", "n">>

N_Ticker == <<"T", "i", "c", "k", "e", "r">>

N_ISIN_Security == <<"I", "S", "I", "N", " ", "S", "e", "c", "u", "r", "i", "t", "y">>

N_Sector == <<"S", "e", "c", "t", "o", "r">>

N_Pais == <<"P", "a", "i", "s">>

N_Weight_Fund == <<"W", "e", "i", "g", "h", "t", " ", "F", "u", "n", "d">>

N_Alloc == <<"A", "l", "l", "o", "c">>

N_Peso_Real == <<"P", "e", "s", "o", " ", "R", "e", "a", "l">>

\* Lines 63-66.
expected_cols == <<N_Fund_ISIN, N_Fondo, N_Accion, N_Ticker, N_ISIN_Security, N_Sector, N_Pais, N_Weight_Fund, N_Alloc, N_Peso_Real>>

\* The label of line 120 with the default threshold, f'Otros (<{threshold}%)'.
OtrosLabel == <<"O", "t", "r", "o", "s", " ", "(", "<", "0", ".", "5", "%", ")">>

(***************************************************************************)
(* Tables.  A raw table is [cols, rows]: the column labels and, per row,  *)
(* one cell per column.  A consolidated table is a sequence of positions  *)
(* [Accion, Peso_Real, Pais, Sector] with Peso_Real an exact decimal.     *)
(***************************************************************************)
MaxOf(S) == CHOOSE i \in S : \A j \in S : j <= i

MinOf(S) == CHOOSE i \in S : \A j \in S : i <= j

\* Line 60: df_raw.columns.str.strip().
StripColumns(cols) == [i \in 1..Len(cols) |-> Strip(cols[i])]

\* Lines 67-71: the dict built by the loop; a later position overwrites an
\* earlier one with the same label.
Mapping(current_cols) ==
    LET K == {i \in 1..Len(expected_cols) : i <= Len(current_cols)}
    IN  [nm \in {current_cols[i] : i \in K} |->
            expected_cols[MaxOf({i \in K : current_cols[i] = nm})]]

\* Line 73: DataFrame.rename(columns=mapping).
Rename(cols, mapping) ==
    [i \in 1..Len(cols) |-> IF cols[i] \in DOMAIN mapping THEN mapping[cols[i]] ELSE cols[i]]

\* A mapping by name first: a label that already is a canonical name is kept.
MappedColumns_ByName(cols) ==
    LET stripped == StripColumns(cols)
        renamed == Rename(stripped, Mapping(stripped))
    IN  [i \in 1..Len(cols) |->
            IF \E k \in 1..Len(expected_cols) : expected_cols[k] = stripped[i]
            THEN stripped[i] ELSE renamed[i]]

\* Lines 60-73 on the column labels.
MappedColumns(cols) == Rename(StripColumns(cols), Mapping(StripColumns(cols)))

\* Line 76: "Peso Real" in df_raw.columns.
HasColumn(cols, name) == \E i \in 1..Len(cols) : cols[i] = name

ColIdx(cols, name) == CHOOSE i \in 1..Len(cols) : cols[i] = name

\* df[name]: the cells of the column labelled name, in row order.
Column(tbl, name) == [r \in 1..Len(tbl.rows) |-> tbl.rows[r][ColIdx(tbl.cols, name)]]

\* Lines 81-90: the weight column replaced by its cleaned, numeric form.
CleanPeso(tbl) ==
    [tbl EXCEPT !.rows =
        [r \in 1..Len(tbl.rows) |->
            [tbl.rows[r] EXCEPT ![ColIdx(tbl.cols, N_Peso_Real)] = PesoReal(@)]]]

\* The keys of a groupby (dropna=True, sort=True): the distinct non-missing
\* values, in ascending order.
RECURSIVE SortedKeys(_)
SortedKeys(S) ==
    IF S = {} THEN <<>>
    ELSE LET k == CHOOSE x \in S : \A y \in S : ~StrLt(y, x)
         IN  <<k>> \o SortedKeys(S \ {k})

GroupKeys(cells) == SortedKeys({cells[i].s : i \in {j \in 1..Len(cells) : ~IsNa(cells[j])}})

\* The members of a group: the places holding that key, in input order.
Members(cells, k) == {i \in 1..Len(cells) : ~IsNa(cells[i]) /\ cells[i].s = k}

\* agg "sum" over the cells at the places I (missing cells are skipped).
RECURSIVE SumCells(_, _)
SumCells(cells, I) ==
    IF I = {} THEN Zero
    ELSE LET i == MinOf(I)
         IN  DecAdd(IF IsNa(cells[i]) THEN Zero ELSE cells[i].d, SumCells(cells, I \ {i}))

\* agg "first" over the cells at the places I: the first non-missing cell.
First(cells, I) ==
    LET V == {i \in I : ~IsNa(cells[i])}
    IN  IF V = {} THEN NaN ELSE cells[MinOf(V)]

\* Lines 95-99: groupby("Accion").agg(sum, first, first).reset_index().
Consolidated(tbl) ==
    LET accion == Column(tbl, N_Accion)
        peso == Column(tbl, N_Peso_Real)
        pais == Column(tbl, N_Pais)
        sector == Column(tbl, N_Sector)
        keys == GroupKeys(accion)
    IN  [g \in 1..Len(keys) |->
            [Accion |-> StrCell(keys[g]),
             Peso_Real |-> SumCells(peso, Members(accion, keys[g])),
             Pais |-> First(pais, Members(accion, keys[g])),
             Sector |-> First(sector, Members(accion, keys[g]))]]

RECURSIVE PermSeqs(_)
PermSeqs(G) ==
    IF G = {} THEN {<<>>}
    ELSE UNION {{<<x>> \o p : p \in PermSeqs(G \ {x})} : x \in G}

\* The row orders an unstable sort by weight can return: ascending or
\* descending weight, rows of equal weight in any order.
RECURSIVE IndexOrders(_, _, _)
IndexOrders(S, d, ascending) ==
    IF S = {} THEN {<<>>}
    ELSE LET best == {i \in S : \A j \in S :
                        IF ascending THEN ~DecLt(d[j].Peso_Real, d[i].Peso_Real)
                                     ELSE ~DecLt(d[i].Peso_Real, d[j].Peso_Real)}
         IN  UNION {{g \o r : r \in IndexOrders(S \ best, d, ascending)} : g \in PermSeqs(best)}

\* DataFrame.sort_values("Peso Real", ascending=...) with the default
\* kind='quicksort', which is not stable: every outcome it may produce.
SortValues(d, ascending) ==
    {[k \in 1..Len(d) |-> d[o[k]]] : o \in IndexOrders(1..Len(d), d, ascending)}

\* The ranking with the sort direction left at its default.
Ranked_Ascending(d) == SortValues(d, TRUE)

\* Line 102.
Ranked(d) == SortValues(d, FALSE)

\* Series.nunique(): the number of distinct non-missing values.
NUnique(d, col) == Cardinality({d[i][col].s : i \in {j \in 1..Len(d) : ~IsNa(d[j][col])}})

\* Line 114: the default threshold, 0.5.
threshold == [m |-> 5, e |-> 1]

\* Line 116: groupby(col_name)['Peso Real'].sum().reset_index().
Grouped(d, col) ==
    LET cells == [i \in 1..Len(d) |-> d[i][col]]
        peso == [i \in 1..Len(d) |-> FloatCell(d[i].Peso_Real)]
        keys == GroupKeys(cells)
    IN  [g \in 1..Len(keys) |->
            [label |-> keys[g], Peso_Real |-> SumCells(peso, Members(cells, keys[g]))]]

\* Lines 114-122.
prepare_pie_data(d, col) ==
    LET grouped == Grouped(d, col)
        main == SelectSeq(grouped, LAMBDA b : DecGe(b.Peso_Real, threshold))
        others == SelectSeq(grouped, LAMBDA b : DecLt(b.Peso_Real, threshold))
    IN  IF others # <<>>
        THEN main \o <<[label |-> OtrosLabel,
                        Peso_Real |-> DecSum([i \in 1..Len(others) |-> others[i].Peso_Real])]>>
        ELSE main

(***************************************************************************)
(* State.                                                                  *)
(***************************************************************************)
VARIABLES
    secret,         \* st.secrets["passwords"]["access_code"]
    session_state,  \* st.session_state
    pwd,            \* the text held by the password field
    cache,          \* the result st.cache_data keeps for load_data
    runs,           \* script runs started in the session
    pc,             \* the place the running script has reached
    out,            \* what the current run has put on the page
    sheet,          \* the table load_data returned to this run
    df_raw,         \* df_raw
    df,             \* df
    kpi,            \* the three metrics of lines 107-109
    df_pais,        \* df_pais
    df_sec,         \* df_sec
    df_top10,       \* df_top10
    start_rank,     \* start_rank
    end_rank,       \* end_rank
    df_range        \* df_range

vars == <<secret, session_state, pwd, cache, runs, pc, out, sheet, df_raw, df, kpi,
          df_pais, df_sec, df_top10, start_rank, end_rank, df_range>>

sessionVars == <<secret, session_state, pwd, cache, runs>>

viewVars == <<kpi, df_pais, df_sec>>

barVars == <<df_top10, start_rank, end_rank, df_range>>

NoTable == [cols |-> <<>>, rows |-> <<>>]

NoKpi == [Posiciones |-> 0, Paises |-> 0, Sectores |-> 0]

(***************************************************************************)
(* The tables the model feeds to the script.  An empty sheet cell arrives *)
(* as NaN.  Column labels stay distinct after the rename, so df[label] is *)
(* always one column.                                                      *)
(***************************************************************************)
Filler == StrCell(<<"x">>)

\* A sheet label that is no canonical name; every second one carries
\* surrounding blanks.
RawName(i) == IF i % 2 = 0 THEN <<" ", "h">> \o NatStr(i) \o <<" ">> ELSE <<"h">> \o NatStr(i)

\* n labels; the one at place p (if any) reads "Peso Real" in the sheet.
PlainHeader(n, p) == [i \in 1..n |-> IF i = p THEN <<" ">> \o N_Peso_Real ELSE RawName(i)]

\* n labels that already are the canonical names, in order.
CanonHeader(n) == [i \in 1..n |-> IF i <= Len(expected_cols) THEN expected_cols[i] ELSE RawName(i)]

Width == Len(expected_cols)

Headers(N) == {PlainHeader(n, p) : n \in N, p \in 0..Width} \cup {CanonHeader(n) : n \in N}

Row(n, accion, sector, pais, peso) ==
    [i \in 1..n |-> CASE i = 3 -> accion [] i = 6 -> sector [] i = 7 -> pais
                      [] i = 10 -> peso [] OTHER -> Filler]

Alphabet == {"1", "5", ".", ",", "%", "n", "a"}

\* The texts of up to n characters.
Texts(n) == UNION {[1..k -> Alphabet] : k \in 0..n}

\* Every weight cell the model tries on its own: all short texts, a missing
\* cell, and numeric cells.
PesoCells ==
    {StrCell(t) : t \in Texts(MaxLen)} \cup {NaN, StrCell(<<"2", "€">>)}
        \cup {FloatCell([m |-> 35, e |-> 1]), FloatCell([m |-> 40, e |-> 0]),
              FloatCell([m |-> 25, e |-> 2]), IntCell(40), IntCell(0)}

Acciones == {StrCell(<<"A">>), StrCell(<<"B">>), NaN}

Paises == {StrCell(<<"U", "S">>), StrCell(<<"I", "E">>), NaN}

Sectores == {StrCell(<<"T", "e", "c", "h">>), NaN}

PesoSamples == {StrCell(<<"0", ",", "2">>), StrCell(<<"0", ",", "3">>)}

SampleRows ==
    {Row(Width, a, s, p, w) : a \in Acciones, s \in Sectores, p \in Paises, w \in PesoSamples}


FillerRows(n) == {<<>>, <<[i \in 1..n |-> Filler]>>}

\* Too few columns, any labels.
NarrowTables ==
    UNION {{[cols |-> h, rows |-> r] : r \in FillerRows(Len(h))} : h \in Headers(0..(Width - 1))}

\* Enough columns under any labels, with no row or one.
WideTables ==
    UNION {{[cols |-> h, rows |-> r] :
                r \in {<<>>, <<Row(Len(h), StrCell(<<"A">>), NaN, StrCell(<<"U", "S">>), StrCell(<<"1", ",", "5">>))>>}} :
           h \in Headers(Width..(Width + MaxExtraCols))}

\* One row, every weight cell.
CellTables ==
    {[cols |-> CanonHeader(Width),
      rows |-> <<Row(Width, StrCell(<<"A">>), NaN, StrCell(<<"U", "S">>), w)>>] : w \in PesoCells}

\* The sample rows rs under the canonical labels.
RowTable(rs) == [cols |-> CanonHeader(Width), rows |-> rs]

(***************************************************************************)
(* The cleaning, consolidation and view stages: lines 57-142.             *)
(***************************************************************************)
\* Lines 60-78.
CleanColumns ==
    /\ pc = "clean"
    /\ df_raw' = [df_raw EXCEPT !.cols = MappedColumns(df_raw.cols)]
    /\ IF ~HasColumn(df_raw'.cols, N_Peso_Real)
       THEN /\ out' = out \cup {"error_no_weight"}
            /\ pc' = "stopped"
       ELSE /\ out' = out
            /\ pc' = "numbers"
    /\ UNCHANGED <<sessionVars, sheet, df, viewVars, barVars>>

\* Lines 80-92.  With column labels that stay distinct the try block cannot
\* raise, so line 92 is not reached.
CleanNumbers ==
    /\ pc = "numbers"
    /\ df_raw' = CleanPeso(df_raw)
    /\ pc' = "group"
    /\ UNCHANGED <<sessionVars, out, sheet, df, viewVars, barVars>>

\* Lines 95-99.
Consolidate ==
    /\ pc = "group"
    /\ df' = Consolidated(df_raw)
    /\ pc' = "sort"
    /\ UNCHANGED <<sessionVars, out, sheet, df_raw, viewVars, barVars>>

\* Line 102.
Rank ==
    /\ pc = "sort"
    /\ df' \in Ranked(df)
    /\ pc' = "kpi"
    /\ UNCHANGED <<sessionVars, out, sheet, df_raw, viewVars, barVars>>

\* Lines 106-109.
KPIs ==
    /\ pc = "kpi"
    /\ kpi' = [Posiciones |-> Len(df), Paises |-> NUnique(df, "Pais"),
               Sectores |-> NUnique(df, "Sector")]
    /\ out' = out \cup {"kpi"}
    /\ pc' = "pies"
    /\ UNCHANGED <<sessionVars, sheet, df_raw, df, df_pais, df_sec, barVars>>

\* Lines 124-142.
Pies ==
    /\ pc = "pies"
    /\ IF df # <<>>
       THEN /\ df_pais' = prepare_pie_data(df, "Pais")
            /\ df_sec' = prepare_pie_data(df, "Sector")
            /\ out' = out \cup {"pie_pais", "pie_sector"}
       ELSE UNCHANGED <<df_pais, df_sec, out>>
    /\ pc' = "bars"
    /\ UNCHANGED <<sessionVars, sheet, df_raw, df, kpi, barVars>>

InitIdle ==
    /\ secret = ""
    /\ session_state = [k \in {} |-> FALSE]
    /\ pwd = ""
    /\ cache = [valid |-> FALSE, df |-> NoTable]
    /\ runs = 0

InitNoViews ==
    /\ kpi = NoKpi
    /\ df_pais = <<>>
    /\ df_sec = <<>>

InitNoBars ==
    /\ df_top10 = <<>>
    /\ start_rank = 0
    /\ end_rank = 0
    /\ df_range = <<>>

InitPipe ==
    /\ InitIdle
    /\ pc = "clean"
    /\ out = {"title"}
    /\ \/ sheet \in NarrowTables \cup WideTables \cup CellTables
       \/ \E k \in 0..MaxRows : \E rs \in [1..k -> SampleRows] : sheet = RowTable(rs)
    /\ df_raw = sheet
    /\ df = <<>>
    /\ InitNoViews
    /\ InitNoBars

NextPipe == CleanColumns \/ CleanNumbers \/ Consolidate \/ Rank \/ KPIs \/ Pies

\* The script from line 57 on, entered with any fetched table.
SpecPipe == InitPipe /\ [][NextPipe]_vars

(***************************************************************************)
(* Claims about lines 57-142, checked under SpecPipe.                      *)
(***************************************************************************)
AfterNumbers == pc \in {"group", "sort", "kpi", "pies", "bars"}

AfterGroup == pc \in {"sort", "kpi", "pies", "bars"}

Views == {"kpi", "pie_pais", "pie_sector", "top10", "range"}

RowIds(tbl) == 1..Len(tbl.rows)

TotalWeight(d) == DecSum([i \in 1..Len(d) |-> d[i].Peso_Real])

\* C1: the weights of the consolidated positions add up to the weights of
\* all normalized rows, whatever their name, country or sector cells hold.
C1_MassPreserved ==
    AfterGroup =>
        TotalWeight(df) = SumCells(Column(df_raw, N_Peso_Real), RowIds(df_raw))

RowsNamed(k) == {r \in RowIds(df_raw) : Column(df_raw, N_Accion)[r] = k}

\* The security names of the rows that have one.
Names == {Column(df_raw, N_Accion)[r] : r \in {x \in RowIds(df_raw) : ~IsNa(Column(df_raw, N_Accion)[x])}}

\* C2: exactly one position per distinct security name, carrying the country and
\* sector cells of the first input row with that name, empty or not.
C2_FirstSeenWins ==
    AfterGroup =>
        /\ Len(df) = Cardinality(Names)
        /\ \A k \in Names :
            \E i \in 1..Len(df) :
                /\ df[i].Accion = k
                /\ df[i].Pais = Column(df_raw, N_Pais)[MinOf(RowsNamed(k))]
                /\ df[i].Sector = Column(df_raw, N_Sector)[MinOf(RowsNamed(k))]

PesoIn(r) == sheet.rows[r][Width]

PesoOut(r) == df_raw.rows[r][Width]

IsNumeric(c) == c.t \in {"float", "int"}

\* C3: a weight cell that is already a number comes out of the cleaning
\* with the same value.
C3_NumericUnchanged ==
    AfterNumbers =>
        \A r \in RowIds(sheet) : IsNumeric(PesoIn(r)) => PesoOut(r).d = PesoIn(r).d

\* Text that reads as a decimal number: digits, at most one point, a digit.
IsDecimalText(s) ==
    /\ \A i \in 1..Len(s) : s[i] \in DigitSet \cup {"."}
    /\ Cardinality({i \in 1..Len(s) : s[i] = "."}) <= 1
    /\ \E i \in 1..Len(s) : s[i] \in DigitSet

\* C4: whatever the weight cells hold, the cleaning leaves a number in every
\* row, 0 where the cleaned text does not parse, shows no error and goes on
\* to the consolidation.
C4_ParsingTotal ==
    /\ Len(sheet.cols) >= Width => pc \notin {"stopped", "crashed"}
    /\ AfterNumbers =>
        /\ \A r \in RowIds(df_raw) :
            /\ PesoOut(r).t = "float"
            /\ ~IsDecimalText(CleanStr(AsStr(PesoIn(r)))) => PesoOut(r).d = Zero
        /\ "error_clean" \notin out

C4_Witness ==
    /\ pc = "sort"
    /\ Len(sheet.rows) = 1
    /\ PesoIn(1) = StrCell(<<"1", ",", ",">>)
    /\ PesoOut(1) = FloatCell(Zero)

\* C5: a table of fewer than 10 columns stops at the error of line 77: the
\* weights are never parsed and nothing is consolidated or shown.
C5_NarrowIsFatal ==
    Len(sheet.cols) < Width =>
        /\ pc \in {"clean", "stopped"}
        /\ pc = "stopped" => "error_no_weight" \in out
        /\ out \cap Views = {}
        /\ df_raw.rows = sheet.rows
        /\ df = <<>>

C5_Witness ==
    /\ Len(sheet.cols) < Width
    /\ HasColumn(StripColumns(sheet.cols), N_Peso_Real)
    /\ pc = "stopped"
    /\ "error_no_weight" \in out

Categories(col) == {df[i][col] : i \in 1..Len(df)}

CategorySum(col, c) ==
    DecSum([i \in 1..Len(df) |-> IF df[i][col] = c THEN df[i].Peso_Real ELSE Zero])

BucketsOf(b, label) == {i \in 1..Len(b) : b[i].label = label}

Small(col) == {c \in Categories(col) : DecLt(CategorySum(col, c), threshold)}

RECURSIVE SumOver(_, _)
SumOver(col, S) ==
    IF S = {} THEN Zero
    ELSE LET c == CHOOSE x \in S : TRUE
         IN  DecAdd(CategorySum(col, c), SumOver(col, S \ {c}))

Partitioned(b, col) ==
    /\ \A c \in Categories(col) \ Small(col) :
        \E i \in 1..Len(b) :
            /\ BucketsOf(b, c.s) = {i}
            /\ b[i].Peso_Real = CategorySum(col, c)
    /\ \A c \in Small(col) : BucketsOf(b, c.s) = {}
    /\ Cardinality(BucketsOf(b, OtrosLabel)) = IF Small(col) = {} THEN 0 ELSE 1
    /\ \A i \in BucketsOf(b, OtrosLabel) : b[i].Peso_Real = SumOver(col, Small(col))
    /\ DecSum([i \in 1..Len(b) |-> b[i].Peso_Real]) = TotalWeight(df)

\* C6: the buckets split the categories at the threshold: the large ones
\* one by one, the small ones in a single 'Otros' bucket present exactly
\* when there is a small one, and the buckets add up to all the weight.
C6_BucketsPartition ==
    (pc = "bars" /\ df # <<>>) => Partitioned(df_pais, "Pais") /\ Partitioned(df_sec, "Sector")

IsDescending(d) == \A i \in 1..(Len(d) - 1) : ~DecLt(d[i].Peso_Real, d[i + 1].Peso_Real)

Place(d, p) == CHOOSE i \in 1..Len(d) : d[i] = p

SamePositions(d, e) == Len(d) = Len(e) /\ {d[i] : i \in 1..Len(d)} = {e[i] : i \in 1..Len(e)}

KeepsTieOrder(d, e) ==
    \A i, j \in 1..Len(d) :
        (i < j /\ d[i].Peso_Real = d[j].Peso_Real) => Place(e, d[i]) < Place(e, d[j])

\* C8 as stated: the ranking is by non-increasing weight and positions of
\* equal weight keep the order the consolidation gave them.
C8_StableRanking ==
    [][pc = "sort" => (IsDescending(df') /\ SamePositions(df, df') /\ KeepsTieOrder(df, df'))]_vars

\* C8 amended: the ranking is by non-increasing weight and holds exactly the
\* consolidated positions; the order among equal weights is not fixed.
C8_RankingDescending ==
    [][pc = "sort" => (IsDescending(df') /\ SamePositions(df, df'))]_vars

C8_Witness ==
    /\ pc = "kpi"
    /\ Len(df) = 2
    /\ df[1].Peso_Real = df[2].Peso_Real
    /\ StrLt(df[2].Accion.s, df[1].Accion.s)

(***************************************************************************)
(* The bar charts: lines 146-203.                                          *)
(***************************************************************************)
\* DataFrame.head(10).
Head10(d) == SubSeq(d, 1, IF Len(d) < 10 THEN Len(d) ELSE 10)

\* DataFrame.iloc[a:b].
ILoc(d, a, b) == SubSeq(d, a + 1, IF b < Len(d) THEN b ELSE Len(d))

\* The slice taken without turning the rank into an offset.
RangeSlice_OffByOne(d, start, end) == ILoc(d, start, end)

\* Line 184, before the sort: df.iloc[start_rank-1 : end_rank].
RangeSlice(d, start, end) == ILoc(d, start - 1, end)

\* Lines 147-159.
Top10 ==
    /\ pc = "bars"
    /\ IF df # <<>>
       THEN /\ df_top10' \in SortValues(Head10(df), TRUE)
            /\ out' = out \cup {"top10"}
       ELSE UNCHANGED <<df_top10, out>>
    /\ pc' = "explorer"
    /\ UNCHANGED <<sessionVars, sheet, df_raw, df, viewVars, start_rank, end_rank, df_range>>

\* Lines 162-203.  st.number_input raises when its default value, 11, is
\* above max_value=len(df); otherwise the user may hold any start in
\* 1..len(df) and any end in start..len(df).
Explorer ==
    /\ pc = "explorer"
    /\ \/ /\ Len(df) <= 1
          /\ pc' = "done"
          /\ UNCHANGED <<out, start_rank, end_rank, df_range>>
       \/ /\ Len(df) > 1
          /\ 11 > Len(df)
          /\ pc' = "crashed"
          /\ out' = out \cup {"exception"}
          /\ UNCHANGED <<start_rank, end_rank, df_range>>
       \/ /\ Len(df) > 1
          /\ 11 <= Len(df)
          /\ \E s \in 1..Len(df) : \E e \in s..Len(df) :
                /\ start_rank' = s
                /\ end_rank' = e
                /\ df_range' \in SortValues(RangeSlice(df, s, e), TRUE)
          /\ out' = out \cup (IF df_range' # <<>> THEN {"range"} ELSE {"info_invalid_range"})
          /\ pc' = "done"
    /\ UNCHANGED <<sessionVars, sheet, df_raw, df, viewVars, df_top10>>

\* A ranked table of n positions whose weights fall rank by rank, except
\* that ranks t and t+1 (if t > 0) weigh the same.
RankedTable(n, t) ==
    [i \in 1..n |->
        [Accion |-> StrCell(<<"s">> \o NatStr(i)),
         Peso_Real |-> [m |-> (n - i) + (IF t > 0 /\ i > t THEN 1 ELSE 0), e |-> 0],
         Pais |-> StrCell(<<"U", "S">>),
         Sector |-> NaN]]

RankedTables == {RankedTable(n, t) : n \in 0..MaxRank, t \in 0..MaxRank}

InitBars ==
    /\ InitIdle
    /\ pc = "bars"
    /\ out = {"title", "kpi"}
    /\ sheet = NoTable
    /\ df_raw = NoTable
    /\ df \in {d \in RankedTables : IsDescending(d)}
    /\ InitNoViews
    /\ InitNoBars

NextBars == Top10 \/ Explorer

\* The script from line 146 on, entered with any ranked table.
SpecBars == InitBars /\ [][NextBars]_vars

IsAscending(d) == \A i \in 1..(Len(d) - 1) : ~DecLt(d[i + 1].Peso_Real, d[i].Peso_Real)

Secrets == {"open", "sesame"}

Entries == {"", "open", "sesame", "guess"}

\* What load_data may return: tables of 3, 10 and more columns.
FetchSamples ==
    {[cols |-> CanonHeader(n), rows |-> <<[i \in 1..n |-> Filler]>>] :
        n \in {3, Width, Width + MaxExtraCols}}

\* Lines 15-16 read the flag that lines 12-13 have made sure exists.
FlagTrue == "password_correct" \in DOMAIN session_state /\ session_state["password_correct"]

\* A gate that accepts any text.
PasswordMatches_Any(entered) == TRUE

\* Line 23.
PasswordMatches(entered) == entered = secret

Ended == pc \in {"stopped", "crashed", "done"}

\* The user acts on the page (or opens it): Streamlit runs the script from
\* the top.  The password field holds text only if the last run drew it.
StartRun ==
    /\ pc = "start" \/ Ended
    /\ runs < MaxRuns
    /\ runs' = runs + 1
    /\ \E t \in Entries : pwd' = IF "password_input" \in out THEN t ELSE ""
    /\ out' = {}
    /\ pc' = "gate"
    /\ sheet' = NoTable
    /\ df_raw' = NoTable
    /\ UNCHANGED <<secret, session_state, cache, df, viewVars, barVars>>

\* Lines 10-31: check_password and the st.stop() that follows a False.
Gate ==
    /\ pc = "gate"
    /\ LET state == IF "password_correct" \in DOMAIN session_state
                    THEN session_state
                    ELSE [k \in {"password_correct"} |-> FALSE]
       IN  IF state["password_correct"]
           THEN /\ session_state' = state
                /\ pc' = "load"
                /\ out' = out
           ELSE IF pwd # "" /\ PasswordMatches(pwd)
           THEN \* st.rerun(): this run ends and the script starts over
                /\ session_state' = [state EXCEPT !["password_correct"] = TRUE]
                /\ pc' = "gate"
                /\ out' = {}
           ELSE /\ session_state' = state
                /\ pc' = "stopped"
                /\ out' = out \cup {"password_input"}
                               \cup (IF pwd # "" THEN {"error_password"} ELSE {})
    /\ UNCHANGED <<secret, pwd, cache, runs, sheet, df_raw, df, viewVars, barVars>>

\* Lines 34-48: the title, then load_data through st.cache_data.
LoadData ==
    /\ pc = "load"
    /\ \/ /\ cache.valid
          /\ df_raw' = cache.df
          /\ out' = out \cup {"title"}
          /\ pc' = "debug"
          /\ UNCHANGED cache
       \/ /\ ~cache.valid
          /\ \E t \in FetchSamples :
                /\ cache' = [valid |-> TRUE, df |-> t]
                /\ df_raw' = t
          /\ out' = out \cup {"title"}
          /\ pc' = "debug"
       \/ /\ ~cache.valid
          /\ out' = out \cup {"title", "error_connect"}
          /\ pc' = "stopped"
          /\ UNCHANGED <<cache, df_raw>>
    /\ sheet' = df_raw'
    /\ UNCHANGED <<secret, session_state, pwd, runs, df, viewVars, barVars>>

\* ttl=60 of line 37: the cached table expires.
CacheExpires ==
    /\ cache.valid
    /\ cache' = [valid |-> FALSE, df |-> NoTable]
    /\ UNCHANGED <<secret, session_state, pwd, runs, pc, out, sheet, df_raw, df, viewVars, barVars>>

\* Line 51 reads debug_mode, a name the script never binds: NameError.
\* Streamlit shows the exception and the run ends there.
Diagnostics ==
    /\ pc = "debug"
    /\ out' = out \cup {"exception"}
    /\ pc' = "crashed"
    /\ UNCHANGED <<sessionVars, sheet, df_raw, df, viewVars, barVars>>

Init ==
    /\ secret \in Secrets
    /\ session_state = [k \in {} |-> FALSE]
    /\ pwd = ""
    /\ cache = [valid |-> FALSE, df |-> NoTable]
    /\ runs = 0
    /\ pc = "start"
    /\ out = {}
    /\ sheet = NoTable
    /\ df_raw = NoTable
    /\ df = <<>>
    /\ InitNoViews
    /\ InitNoBars

Next == StartRun \/ Gate \/ LoadData \/ CacheExpires \/ Diagnostics

\* One browser session of the script as written.  No run gets past line 51,
\* so the stages after it are entered on their own in SpecPipe and SpecBars.
Spec == Init /\ [][Next]_vars

Dashboard == Views \cup {"title", "error_connect", "exception", "error_no_weight"}

\* C9: the flag starts out not true, turns true only at the gate with the
\* entered text equal to the secret, never turns back, nothing is fetched or
\* shown past the gate while it is not true, and a wrong non-empty entry
\* shows an error, leaves the flag as it was and the field on the page.
C9_AccessGate ==
    /\ ~FlagTrue
    /\ [][/\ (~FlagTrue /\ FlagTrue') => (pc = "gate" /\ pwd # "" /\ pwd = secret)
          /\ FlagTrue => FlagTrue'
          /\ (pc' \in {"load", "debug"} \/ out' \cap Dashboard # {}) => FlagTrue'
          /\ (cache'.valid /\ cache' # cache) => FlagTrue
          /\ (pc = "gate" /\ ~FlagTrue /\ pwd # "" /\ pwd # secret) =>
                /\ ~FlagTrue'
                /\ pc' = "stopped"
                /\ out' = {"password_input", "error_password"}
         ]_vars

C9_Witness ==
    /\ FlagTrue
    /\ pc = "debug"
    /\ runs = 2
    /\ cache.valid

\* C10: a run past the gate whose fetch succeeds with at least 10 columns
\* reaches the KPIs and views without aborting; any other run past the gate
\* ends in an error with no view shown.
C10_RunCompletes ==
    (Ended /\ "title" \in out) =>
        IF "error_connect" \notin out /\ Len(sheet.cols) >= Width
        THEN "kpi" \in out /\ pc # "crashed"
        ELSE out \cap Views = {} /\ out \cap {"error_connect", "error_no_weight"} # {}

====
